---- MODULE Spec2Model ----
(***************************************************************************)
(* A model of the zimg API v2 boundary layer (src/API/zimg2.cpp): the      *)
(* thread-local last-error pair, the exception-to-status translation, the  *)
(* filter-handle operations and the three filter constructors, together    *)
(* with the copy-filter scenario of src/test/graph/copy_filter_test.cpp.   *)
(***************************************************************************)
EXTENDS Integers, Sequences, FiniteSets, TLC

VARIABLES
    g_last_error,       \* THREAD_LOCAL int g_last_error
    g_last_error_msg,   \* THREAD_LOCAL char g_last_error_msg[1024]
    heap,               \* filter objects alive on the free store, by handle
    rp,                 \* the caller's zimg_resize_params struct
    last,               \* what the most recent API call was given and did
    lastFail,           \* history: the most recent library failure and its status
    pc,                 \* "running", or "crashed" after a fatal fault
    cp_type,            \* copy scenario: pixel type of the filter
    cp_seed,            \* copy scenario: seed of the source image
    cp_dst,             \* copy scenario: destination image bytes
    cp_done             \* copy scenario: rows processed over the full span

vars == << g_last_error, g_last_error_msg, heap, rp, last, lastFail, pc,
           cp_type, cp_seed, cp_dst, cp_done >>

apiVars == << g_last_error, g_last_error_msg, heap, rp, last, lastFail, pc >>
copyVars == << cp_type, cp_seed, cp_dst, cp_done >>

Min(S) == CHOOSE x \in S : \A y \in S : x <= y

(***************************************************************************)
(* Bounds of the model.                                                    *)
(***************************************************************************)
MaxFilters == 1
CopyWidth == 2
CopyHeight == 2
MaxSeed == 2

(***************************************************************************)
(* zimg2.h / zimg.h: status codes and enumerators (the headers are not     *)
(* part of the sources at hand).                                           *)
(***************************************************************************)
ZIMG_API_VERSION == 2

ZIMG_ERROR_UNKNOWN == -1
ZIMG_ERROR_LOGIC == 100
ZIMG_ERROR_OUT_OF_MEMORY == 200
ZIMG_ERROR_ILLEGAL_ARGUMENT == 300
ZIMG_ERROR_UNSUPPORTED == 400

ZIMG_PIXEL_BYTE == 0
ZIMG_PIXEL_WORD == 1
ZIMG_PIXEL_HALF == 2
ZIMG_PIXEL_FLOAT == 3

ZIMG_RANGE_LIMITED == 0
ZIMG_RANGE_FULL == 1

ZIMG_MATRIX_RGB == 0
ZIMG_MATRIX_709 == 1
ZIMG_MATRIX_470BG == 5
ZIMG_MATRIX_170M == 6
ZIMG_MATRIX_2020_NCL == 9
ZIMG_MATRIX_2020_CL == 10

ZIMG_TRANSFER_709 == 1
ZIMG_TRANSFER_601 == 6
ZIMG_TRANSFER_LINEAR == 8
ZIMG_TRANSFER_2020_10 == 14
ZIMG_TRANSFER_2020_12 == 15

ZIMG_PRIMARIES_709 == 1
ZIMG_PRIMARIES_170M == 6
ZIMG_PRIMARIES_240M == 7
ZIMG_PRIMARIES_2020 == 9

ZIMG_DITHER_NONE == 0
ZIMG_DITHER_ORDERED == 1
ZIMG_DITHER_RANDOM == 2
ZIMG_DITHER_ERROR_DIFFUSION == 3

ZIMG_RESIZE_POINT == 0
ZIMG_RESIZE_BILINEAR == 1
ZIMG_RESIZE_BICUBIC == 2
ZIMG_RESIZE_SPLINE16 == 3
ZIMG_RESIZE_SPLINE36 == 4
ZIMG_RESIZE_LANCZOS == 5

(***************************************************************************)
(* Common/except.h: the failure classes.  An exception value is its        *)
(* dynamic class and its what() text.                                      *)
(***************************************************************************)
ExceptionClasses ==
    { "ZimgException", "ZimgUnknownError", "ZimgLogicError", "ZimgOutOfMemory",
      "ZimgIllegalArgument", "ZimgUnsupportedError" }

\* t is class c or derives from it: every class derives from ZimgException.
IsA(t, c) == t = c \/ (t \in ExceptionClasses /\ c = "ZimgException")

NoExc == [type |-> "none", what |-> ""]

Exc(c, m) == [type |-> c, what |-> m]

(***************************************************************************)
(* record_exception_message: strncpy of what() into the 1024-byte buffer,  *)
(* at most sizeof - 1 characters, then the terminator.                     *)
(***************************************************************************)
ERROR_MSG_SIZE == 1024

record_exception_message(e) ==
    IF Len(e.what) > ERROR_MSG_SIZE - 1
    THEN SubSeq(e.what, 1, ERROR_MSG_SIZE - 1)
    ELSE e.what

(***************************************************************************)
(* handle_exception.  "throw e" copy-initialises the exception object from *)
(* the static type of its operand, const ZimgException &: the object in    *)
(* flight is a ZimgException carrying e's what(), whatever e's class.      *)
(***************************************************************************)
ThrowByStaticType(e) == [type |-> "ZimgException", what |-> e.what]

\* The handlers in the order written, each with the code it assigns.
CatchClauses ==
    << << "ZimgUnknownError",     ZIMG_ERROR_UNKNOWN >>,
       << "ZimgLogicError",       ZIMG_ERROR_LOGIC >>,
       << "ZimgOutOfMemory",      ZIMG_ERROR_OUT_OF_MEMORY >>,
       << "ZimgIllegalArgument",  ZIMG_ERROR_ILLEGAL_ARGUMENT >>,
       << "ZimgUnsupportedError", ZIMG_ERROR_UNSUPPORTED >>,
       << "ZimgException",        ZIMG_ERROR_UNKNOWN >> >>

\* The code of the first handler that matches the object in flight.
CatchCode(thrown) ==
    LET hit == { i \in 1..Len(CatchClauses) : IsA(thrown.type, CatchClauses[i][1]) }
    IN  CatchClauses[Min(hit)][2]

\* A handle_exception that keeps the code to itself.
handle_exception_no_store(e) ==
    LET thrown == ThrowByStaticType(e)
    IN  [ ret |-> CatchCode(thrown),
          err |-> g_last_error,
          msg |-> record_exception_message(thrown) ]

\* ret: the value returned; err, msg: the thread-local pair afterwards.
handle_exception(e) ==
    LET thrown == ThrowByStaticType(e)
    IN  [ ret |-> CatchCode(thrown),
          err |-> CatchCode(thrown),
          msg |-> record_exception_message(thrown) ]

(***************************************************************************)
(* EX_BEGIN / EX_END around a wrapped operation that either completed      *)
(* (raised = NoExc) or raised a library failure.                           *)
(***************************************************************************)
\* An EX_END that clears the last error when nothing was raised.
EX_END_clears(raised) ==
    IF raised = NoExc
    THEN [ ret |-> 0, err |-> 0, msg |-> "" ]
    ELSE handle_exception(raised)

EX_END(raised) ==
    IF raised = NoExc
    THEN [ ret |-> 0, err |-> g_last_error, msg |-> g_last_error_msg ]
    ELSE handle_exception(raised)

(***************************************************************************)
(* The enum translators: a static_int_map lookup that throws               *)
(* ZimgIllegalArgument when the key is absent.  A result is the exception  *)
(* raised (NoExc if none) and the value returned.                          *)
(***************************************************************************)
MapFind(map, key, dflt, what) ==
    LET hit == { p \in map : p[1] = key }
    IN  IF hit = {}
        THEN [ exc |-> Exc("ZimgIllegalArgument", what), val |-> dflt ]
        ELSE [ exc |-> NoExc, val |-> (CHOOSE p \in hit : TRUE)[2] ]

Returned(v) == [ exc |-> NoExc, val |-> v ]

translate_pixel_type(pixel_type) ==
    MapFind({ << ZIMG_PIXEL_BYTE,  "BYTE" >>,
              << ZIMG_PIXEL_WORD,  "WORD" >>,
              << ZIMG_PIXEL_HALF,  "HALF" >>,
              << ZIMG_PIXEL_FLOAT, "FLOAT" >> },
            pixel_type, "none", "invalid pixel type")

translate_pixel_range(range) ==
    MapFind({ << ZIMG_RANGE_LIMITED, FALSE >>,
              << ZIMG_RANGE_FULL,    TRUE >> },
            range, FALSE, "invalid pixel range")

translate_matrix(matrix) ==
    MapFind({ << ZIMG_MATRIX_RGB,      "MATRIX_RGB" >>,
              << ZIMG_MATRIX_709,      "MATRIX_709" >>,
              << ZIMG_MATRIX_470BG,    "MATRIX_601" >>,
              << ZIMG_MATRIX_170M,     "MATRIX_601" >>,
              << ZIMG_MATRIX_2020_NCL, "MATRIX_2020_NCL" >>,
              << ZIMG_MATRIX_2020_CL,  "MATRIX_2020_CL" >> },
            matrix, "none", "invalid matrix coefficients")

translate_transfer(transfer) ==
    MapFind({ << ZIMG_TRANSFER_709,     "TRANSFER_709" >>,
              << ZIMG_TRANSFER_601,     "TRANSFER_709" >>,
              << ZIMG_TRANSFER_2020_10, "TRANSFER_709" >>,
              << ZIMG_TRANSFER_2020_12, "TRANSFER_709" >>,
              << ZIMG_TRANSFER_LINEAR,  "TRANSFER_LINEAR" >> },
            transfer, "none", "invalid transfer characteristics")

translate_primaries(primaries) ==
    MapFind({ << ZIMG_PRIMARIES_709,  "PRIMARIES_709" >>,
              << ZIMG_PRIMARIES_170M, "PRIMARIES_SMPTE_C" >>,
              << ZIMG_PRIMARIES_240M, "PRIMARIES_SMPTE_C" >>,
              << ZIMG_PRIMARIES_2020, "PRIMARIES_2020" >> },
            primaries, "none", "invalid color primaries")

translate_dither(dither) ==
    MapFind({ << ZIMG_DITHER_NONE,            "DITHER_NONE" >>,
              << ZIMG_DITHER_ORDERED,         "DITHER_ORDERED" >>,
              << ZIMG_DITHER_RANDOM,          "DITHER_RANDOM" >>,
              << ZIMG_DITHER_ERROR_DIFFUSION, "DITHER_ERROR_DIFFUSION" >> },
            dither, "none", "invalid dither")

\* The exception of the first step, in program order, that raised one.
FirstExc(steps) ==
    LET bad == { i \in 1..Len(steps) : steps[i].exc # NoExc }
    IN  IF bad = {} THEN NoExc ELSE steps[Min(bad)].exc

(***************************************************************************)
(* Doubles.  A double is NaN or a multiple of 1/6, which holds every value *)
(* the layer computes with (1/3, 3.0, the int extents).                    *)
(***************************************************************************)
DblUnit == 2 * 3

NaN == [ nan |-> TRUE, v |-> 0 ]

Dbl(n) == [ nan |-> FALSE, v |-> n ]

FromInt(i) == Dbl(i * DblUnit)

isnan(x) == x.nan

floor(x) == Dbl((x.v \div DblUnit) * DblUnit)

ToInt(x) == x.v \div DblUnit

(***************************************************************************)
(* translate_resize_filter: the kernel object for a filter kind.  alloc_ok *)
(* is whether operator new succeeded; std::bad_alloc becomes               *)
(* ZimgOutOfMemory.                                                        *)
(***************************************************************************)
NoKernel == [ kind |-> "none", a |-> NaN, b |-> NaN, taps |-> 0 ]

Kernel(k, a, b, t) == [ kind |-> k, a |-> a, b |-> b, taps |-> t ]

translate_resize_filter(filter_type, param_a, param_b, alloc_ok) ==
    LET made ==
          CASE filter_type = ZIMG_RESIZE_POINT    -> Kernel("PointFilter", NaN, NaN, 0)
            [] filter_type = ZIMG_RESIZE_BILINEAR -> Kernel("BilinearFilter", NaN, NaN, 0)
            [] filter_type = ZIMG_RESIZE_BICUBIC  ->
                   Kernel("BicubicFilter",
                          IF isnan(param_a) THEN Dbl(DblUnit \div 3) ELSE param_a,
                          IF isnan(param_b) THEN Dbl(DblUnit \div 3) ELSE param_b,
                          0)
            [] filter_type = ZIMG_RESIZE_SPLINE16 -> Kernel("Spline16Filter", NaN, NaN, 0)
            [] filter_type = ZIMG_RESIZE_SPLINE36 -> Kernel("Spline36Filter", NaN, NaN, 0)
            [] filter_type = ZIMG_RESIZE_LANCZOS  ->
                   Kernel("LanczosFilter", NaN, NaN,
                          ToInt(IF isnan(param_a) THEN FromInt(3) ELSE floor(param_a)))
            [] OTHER -> NoKernel
    IN  IF made = NoKernel
        THEN [ exc |-> Exc("ZimgIllegalArgument", "invalid resize filter"), val |-> NoKernel ]
        ELSE IF ~alloc_ok
        THEN [ exc |-> Exc("ZimgOutOfMemory", ""), val |-> NoKernel ]
        ELSE [ exc |-> NoExc, val |-> made ]

(***************************************************************************)
(* The record of the most recent call: the operation, the parameters it    *)
(* was given, the handle passed or returned (NULL = 0), the status         *)
(* returned, the library failure raised inside it, the arguments handed to *)
(* the filter constructor if the new-expression was reached, and whether   *)
(* the call returned at all.                                               *)
(***************************************************************************)
NULL == 0

NoParams == [ version |-> 0 ]

NoCtor == [ kind |-> "none" ]

Call(op, params, handle, status, raised, ctor, returned) ==
    [ op |-> op, params |-> params, handle |-> handle, status |-> status,
      raised |-> raised, ctor |-> ctor, returned |-> returned ]

Handles == 1..MaxFilters

FreeSlots == { h \in Handles : heap[h] = "free" }

Failure(r, raised) == [ code |-> r.ret, msg |-> raised.what ]

API_VERSION_ASSERT(x) == x >= 2 /\ x <= ZIMG_API_VERSION

ApiInit ==
    /\ g_last_error = 0
    /\ g_last_error_msg = ""
    /\ heap = [ h \in Handles |-> "free" ]
    /\ last = Call("none", NoParams, NULL, 0, NoExc, NoCtor, TRUE)
    /\ lastFail = [ code |-> 0, msg |-> "" ]
    /\ pc = "running"

(***************************************************************************)
(* The status-returning operations on a filter handle.  What the filter's  *)
(* own method does lies outside this layer: it completes or raises.        *)
(***************************************************************************)
FilterFailures ==
    { Exc(c, "filter failure") : c \in ExceptionClasses }

FilterOutcomes == { NoExc } \cup FilterFailures

\* cast_filter_ptr asserts a live filter; the alignment asserts of process
\* are preconditions on the caller's buffers.  The out-parameters are
\* written only on the path that completes and are not part of the state.
FilterCall(op, h, raised) ==
    /\ pc = "running"
    /\ h \in Handles
    /\ heap[h] # "free"
    /\ LET r == EX_END(raised)
       IN  /\ g_last_error' = r.err
           /\ g_last_error_msg' = r.msg
           /\ last' = Call(op, NoParams, h, r.ret, raised, NoCtor, TRUE)
           /\ lastFail' = IF raised = NoExc THEN lastFail ELSE Failure(r, raised)
    /\ UNCHANGED << heap, rp, pc, copyVars >>

zimg2_filter_get_flags ==
    \E h \in Handles, e \in FilterOutcomes : FilterCall("get_flags", h, e)

zimg2_filter_get_required_row_range ==
    \E h \in Handles, e \in FilterOutcomes : FilterCall("get_required_row_range", h, e)

zimg2_filter_get_required_col_range ==
    \E h \in Handles, e \in FilterOutcomes : FilterCall("get_required_col_range", h, e)

zimg2_filter_get_simultaneous_lines ==
    \E h \in Handles, e \in FilterOutcomes : FilterCall("get_simultaneous_lines", h, e)

zimg2_filter_get_context_size ==
    \E h \in Handles, e \in FilterOutcomes : FilterCall("get_context_size", h, e)

zimg2_filter_get_tmp_size ==
    \E h \in Handles, e \in FilterOutcomes : FilterCall("get_tmp_size", h, e)

zimg2_filter_init_context ==
    \E h \in Handles, e \in FilterOutcomes : FilterCall("init_context", h, e)

zimg2_filter_process ==
    \E h \in Handles, e \in FilterOutcomes : FilterCall("process", h, e)

StatusOps ==
    { "get_flags", "get_required_row_range", "get_required_col_range",
      "get_simultaneous_lines", "get_context_size", "get_tmp_size",
      "init_context", "process" }

\* delete ptr; deleting a null pointer does nothing.
zimg2_filter_free ==
    \E h \in Handles \cup { NULL } :
        /\ pc = "running"
        /\ h # NULL => heap[h] # "free"
        /\ heap' = IF h = NULL THEN heap ELSE [ heap EXCEPT ![h] = "free" ]
        /\ last' = Call("free", NoParams, h, 0, NoExc, NoCtor, TRUE)
        /\ UNCHANGED << g_last_error, g_last_error_msg, rp, lastFail, pc, copyVars >>

(***************************************************************************)
(* The tail every constructor shares: the try block raised before the      *)
(* new-expression (pre # NoExc), or new(std::nothrow) T{args} ran.         *)
(* outcome.alloc: the nothrow allocation succeeded; outcome.exc: what T's  *)
(* constructor raised.  The catch clause hands a ZimgException to          *)
(* handle_exception and returns nullptr.                                   *)
(***************************************************************************)
CtorFailures ==
    { Exc("ZimgUnsupportedError", "unsupported conversion"),
      Exc("ZimgOutOfMemory", "out of memory") }

CtorOutcomes ==
    { [ alloc |-> TRUE, exc |-> NoExc ], [ alloc |-> FALSE, exc |-> NoExc ] }
        \cup { [ alloc |-> TRUE, exc |-> e ] : e \in CtorFailures }

Create(op, kind, params, pre, args, outcome) ==
    LET raised == IF pre # NoExc THEN pre
                  ELSE IF outcome.alloc THEN outcome.exc ELSE NoExc
        built  == pre = NoExc /\ outcome.alloc /\ outcome.exc = NoExc
        r      == handle_exception(raised)
        h      == IF built THEN Min(FreeSlots) ELSE NULL
    IN  /\ pc = "running"
        /\ built => FreeSlots # {}
        /\ pre # NoExc => outcome = [ alloc |-> TRUE, exc |-> NoExc ]
        /\ heap' = IF built THEN [ heap EXCEPT ![h] = kind ] ELSE heap
        /\ g_last_error' = IF raised = NoExc THEN g_last_error ELSE r.err
        /\ g_last_error_msg' = IF raised = NoExc THEN g_last_error_msg ELSE r.msg
        /\ lastFail' = IF raised = NoExc THEN lastFail ELSE Failure(r, raised)
        /\ last' = Call(op, params, h, 0, raised,
                        IF pre = NoExc THEN args ELSE NoCtor, TRUE)
        /\ UNCHANGED << rp, pc, copyVars >>

(***************************************************************************)
(* zimg2_colorspace_create.                                                *)
(***************************************************************************)
UNSPECIFIED == 2
NO_PIXEL_TYPE == -1

\* A pixel check that rejects with the illegal-argument class.
colorspace_pixel_check_illegal(pixel_type) ==
    IF pixel_type # "FLOAT"
    THEN Exc("ZimgIllegalArgument", "colorspace only supports FLOAT")
    ELSE NoExc

colorspace_pixel_check(pixel_type) ==
    IF pixel_type # "FLOAT"
    THEN Exc("ZimgUnsupportedError", "colorspace only supports FLOAT")
    ELSE NoExc

zimg2_colorspace_create(params, outcome) ==
    LET steps ==
          IF params.version >= 2
          THEN << translate_matrix(params.matrix_in),
                  translate_transfer(params.transfer_in),
                  translate_primaries(params.primaries_in),
                  translate_matrix(params.matrix_out),
                  translate_transfer(params.transfer_out),
                  translate_primaries(params.primaries_out),
                  translate_pixel_type(params.pixel_type) >>
          ELSE << >>
        pixel_type == IF params.version >= 2 THEN steps[7].val ELSE "BYTE"
        texc == FirstExc(steps)
        pre  == IF texc # NoExc THEN texc ELSE colorspace_pixel_check(pixel_type)
        args == [ kind    |-> "ColorspaceConversion2",
                  csp_in  |-> << steps[1].val, steps[2].val, steps[3].val >>,
                  csp_out |-> << steps[4].val, steps[5].val, steps[6].val >> ]
    IN  /\ API_VERSION_ASSERT(params.version)
        /\ Create("colorspace_create", "colorspace", params, pre, args, outcome)

\* The parameter structs tried: every pixel type with every enum
\* recognised, and each enum field in turn, or the pixel type, unrecognised.
ColorspaceFields ==
    { "matrix_in", "transfer_in", "primaries_in",
      "matrix_out", "transfer_out", "primaries_out" }

ColorspaceValid(pixel_type) ==
    [ version       |-> ZIMG_API_VERSION,
      matrix_in     |-> ZIMG_MATRIX_709,
      transfer_in   |-> ZIMG_TRANSFER_601,
      primaries_in  |-> ZIMG_PRIMARIES_170M,
      matrix_out    |-> ZIMG_MATRIX_RGB,
      transfer_out  |-> ZIMG_TRANSFER_LINEAR,
      primaries_out |-> ZIMG_PRIMARIES_2020,
      pixel_type    |-> pixel_type ]

ColorspaceParams ==
    { ColorspaceValid(t) :
        t \in { ZIMG_PIXEL_BYTE, ZIMG_PIXEL_WORD, ZIMG_PIXEL_HALF,
                ZIMG_PIXEL_FLOAT, NO_PIXEL_TYPE } }
      \cup { [ ColorspaceValid(t) EXCEPT ![f] = UNSPECIFIED ] :
               f \in ColorspaceFields, t \in { ZIMG_PIXEL_FLOAT, ZIMG_PIXEL_BYTE } }

ColorspaceCreate ==
    \E p \in ColorspaceParams, o \in CtorOutcomes : zimg2_colorspace_create(p, o)

(***************************************************************************)
(* zimg2_depth_create.                                                     *)
(***************************************************************************)
PixelFormat(t, d, f, c) == [ type |-> t, depth |-> d, fullrange |-> f, chroma |-> c ]

IsInteger(t) == t = "BYTE" \/ t = "WORD"

\* The condition under which depth_in / range_in are read.
depth_reads_in(pixel_in_type) == IsInteger(pixel_in_type)

\* The condition under which depth_out / range_out are read: the code
\* tests pixel_in.type here as well.
depth_reads_out(pixel_in_type, pixel_out_type) == IsInteger(pixel_in_type)

zimg2_depth_create(params, outcome) ==
    LET dither == translate_dither(params.dither_type)
        tin    == translate_pixel_type(params.pixel_in)
        rin    == IF depth_reads_in(tin.val)
                  THEN translate_pixel_range(params.range_in)
                  ELSE Returned(FALSE)
        tout   == translate_pixel_type(params.pixel_out)
        rout   == IF depth_reads_out(tin.val, tout.val)
                  THEN translate_pixel_range(params.range_out)
                  ELSE Returned(FALSE)
        steps  == IF params.version >= 2
                  THEN << dither, tin, rin, tout, rout >>
                  ELSE << >>
        pixel_in  == PixelFormat(tin.val,
                                 IF depth_reads_in(tin.val) THEN params.depth_in ELSE 0,
                                 rin.val, params.chroma # 0)
        pixel_out == PixelFormat(tout.val,
                                 IF depth_reads_out(tin.val, tout.val)
                                 THEN params.depth_out ELSE 0,
                                 rout.val, params.chroma # 0)
        args == [ kind |-> "Depth2", dither |-> dither.val, width |-> params.width,
                  pixel_in |-> pixel_in, pixel_out |-> pixel_out ]
    IN  /\ API_VERSION_ASSERT(params.version)
        /\ Create("depth_create", "depth", params, FirstExc(steps), args, outcome)

BAD_ENUM == ZIMG_RESIZE_LANCZOS + 1

DepthParams ==
    [ version     : { ZIMG_API_VERSION },
      width       : { 4 },
      dither_type : { ZIMG_DITHER_NONE, BAD_ENUM },
      chroma      : { 0 },
      pixel_in    : { ZIMG_PIXEL_BYTE, ZIMG_PIXEL_FLOAT },
      depth_in    : { 8 },
      range_in    : { ZIMG_RANGE_LIMITED },
      pixel_out   : { ZIMG_PIXEL_WORD, ZIMG_PIXEL_HALF, NO_PIXEL_TYPE },
      depth_out   : { 10 },
      range_out   : { ZIMG_RANGE_FULL, BAD_ENUM } ]

DepthCreate ==
    \E p \in DepthParams, o \in CtorOutcomes : zimg2_depth_create(p, o)

(***************************************************************************)
(* zimg2_resize_params_default: every assignment of the version >= 2       *)
(* block.  subheight is assigned twice; subwidth is not assigned.          *)
(***************************************************************************)
resize_params_default(ptr, version) ==
    IF version >= 2
    THEN [ ptr EXCEPT
             !.version = version,
             !.src_width = 0, !.src_height = 0,
             !.dst_width = 0, !.dst_height = 0,
             !.pixel_type = NO_PIXEL_TYPE,
             !.shift_w = Dbl(0), !.shift_h = Dbl(0),
             !.subheight = NaN,
             !.filter_type = ZIMG_RESIZE_POINT,
             !.filter_param_a = NaN, !.filter_param_b = NaN ]
    ELSE ptr

zimg2_resize_params_default ==
    \E version \in { ZIMG_API_VERSION } :
        /\ pc = "running"
        /\ API_VERSION_ASSERT(version)
        /\ rp' = resize_params_default(rp, version)
        /\ last' = Call("resize_params_default", rp', NULL, 0, NoExc, NoCtor, TRUE)
        /\ UNCHANGED << g_last_error, g_last_error_msg, heap, lastFail, pc, copyVars >>

\* A struct the caller has not initialised: whatever the memory held.
Garbage(sw, sh) ==
    [ version |-> 0, src_width |-> 1, src_height |-> 1, dst_width |-> 1,
      dst_height |-> 1, pixel_type |-> ZIMG_PIXEL_BYTE,
      shift_w |-> Dbl(1), shift_h |-> Dbl(1), subwidth |-> sw, subheight |-> sh,
      filter_type |-> BAD_ENUM, filter_param_a |-> Dbl(1), filter_param_b |-> Dbl(1) ]

GarbageDoubles == { NaN, FromInt(2) }

(***************************************************************************)
(* zimg2_resize_create.  The unique_ptr "filter" is default-constructed    *)
(* and never assigned, so "*filter" dereferences a null pointer: the call  *)
(* faults, or the constructor is handed a reference to no kernel.          *)
(***************************************************************************)
NullDeref == { "fault", "proceeds" }

\* The kernel object that reaches Resize2's constructor.
resize_filter_object(params) == NoKernel

zimg2_resize_create(params, deref, outcome) ==
    LET tp == translate_pixel_type(params.pixel_type)
        pre == IF params.version >= 2 THEN tp.exc ELSE NoExc
        subwidth  == IF params.version < 2 THEN NaN
                     ELSE IF isnan(params.subwidth) THEN FromInt(params.src_width)
                     ELSE params.subwidth
        subheight == IF params.version < 2 THEN NaN
                     ELSE IF isnan(params.subheight) THEN FromInt(params.src_height)
                     ELSE params.subheight
        args == [ kind |-> "Resize2", filter |-> resize_filter_object(params),
                  pixel_type |-> tp.val,
                  src_width |-> params.src_width, src_height |-> params.src_height,
                  dst_width |-> params.dst_width, dst_height |-> params.dst_height,
                  shift_w |-> params.shift_w, shift_h |-> params.shift_h,
                  subwidth |-> subwidth, subheight |-> subheight ]
    IN  /\ API_VERSION_ASSERT(params.version)
        /\ IF pre = NoExc /\ deref = "fault"
           THEN /\ pc = "running"
                /\ outcome = [ alloc |-> TRUE, exc |-> NoExc ]
                /\ pc' = "crashed"
                /\ last' = Call("resize_create", params, NULL, 0, NoExc, args, FALSE)
                /\ UNCHANGED << g_last_error, g_last_error_msg, heap, rp, lastFail,
                                copyVars >>
           ELSE /\ pre # NoExc => deref = "proceeds"
                /\ Create("resize_create", "resize", params, pre, args, outcome)

\* The structs a caller passes: rp with the extents and the pixel type
\* filled in, and with the fields of "also" overwritten.
ResizeRequests(types, filters, as, bs, sws) ==
    { [ rp EXCEPT !.src_width = 4, !.src_height = 3,
                  !.dst_width = 8, !.dst_height = 6,
                  !.pixel_type = t, !.filter_type = f,
                  !.filter_param_a = a, !.filter_param_b = b, !.subwidth = sw ] :
        t \in types, f \in filters, a \in as, b \in bs, sw \in sws }

ResizeParams ==
    ResizeRequests({ ZIMG_PIXEL_FLOAT, rp.pixel_type },
                   { rp.filter_type, ZIMG_RESIZE_LANCZOS, BAD_ENUM },
                   { rp.filter_param_a }, { rp.filter_param_b }, { rp.subwidth })

ResizeCreate ==
    \E p \in ResizeParams, d \in NullDeref, o \in CtorOutcomes : zimg2_resize_create(p, d, o)

(***************************************************************************)
(* The copy filter of CopyFilterTest: a w x h filter of one pixel type     *)
(* whose process(i, left, right) produces row i, columns [left, right).    *)
(* Images are rows of bytes, a sample taking pixel_size(type) bytes.       *)
(***************************************************************************)
PixelTypes == { "BYTE", "WORD", "HALF", "FLOAT" }

pixel_size(type) ==
    CASE type = "BYTE"  -> 1
      [] type = "WORD"  -> 2
      [] type = "HALF"  -> 2
      [] type = "FLOAT" -> 4

CopyRows == 0..(CopyHeight - 1)

RowBytes(type) == 0..(CopyWidth * pixel_size(type) - 1)

\* The source image the test fills in, byte k of row r.
SrcByte(seed, r, k) == (seed + 7 * r + 3 * k) % 200

\* A destination byte nothing has written yet.
Unwritten == 200 + 55

\* The byte span of row i a mutated filter copies: one byte per sample.
copy_span_one_byte(type, left, right) == left..(right - 1)

\* The byte span of row i that process(i, left, right) copies.
copy_span(type, left, right) ==
    (left * pixel_size(type))..(right * pixel_size(type) - 1)

CopyFilter_process(i, left, right) ==
    /\ cp_dst' = [ cp_dst EXCEPT ![i] =
                     [ k \in RowBytes(cp_type) |->
                         IF k \in copy_span(cp_type, left, right)
                         THEN SrcByte(cp_seed, i, k)
                         ELSE cp_dst[i][k] ] ]
    /\ cp_done' = IF left = 0 /\ right = CopyWidth THEN cp_done \cup { i } ELSE cp_done
    /\ UNCHANGED << cp_type, cp_seed, apiVars >>

CopyProcess ==
    \E i \in CopyRows, left \in 0..(CopyWidth - 1), right \in 1..CopyWidth :
        /\ left < right
        /\ CopyFilter_process(i, left, right)

CopyIdle ==
    /\ cp_type = "BYTE"
    /\ cp_seed = 0
    /\ cp_dst = [ r \in CopyRows |-> [ k \in RowBytes("BYTE") |-> Unwritten ] ]
    /\ cp_done = {}

CopyInit ==
    /\ ApiInit
    /\ rp = Garbage(NaN, NaN)
    /\ cp_type \in PixelTypes
    /\ cp_seed \in 0..MaxSeed
    /\ cp_dst = [ r \in CopyRows |-> [ k \in RowBytes(cp_type) |-> Unwritten ] ]
    /\ cp_done = {}

(***************************************************************************)
(* Specifications.  Spec: the operations of the boundary layer.            *)
(* CopySpec: the copy-filter scenario.                                     *)
(***************************************************************************)
Init ==
    /\ ApiInit
    /\ rp \in { Garbage(sw, FromInt(2)) : sw \in GarbageDoubles }
    /\ CopyIdle

Next ==
    \/ zimg2_filter_get_flags
    \/ zimg2_filter_get_required_row_range
    \/ zimg2_filter_get_required_col_range
    \/ zimg2_filter_get_simultaneous_lines
    \/ zimg2_filter_get_context_size
    \/ zimg2_filter_get_tmp_size
    \/ zimg2_filter_init_context
    \/ zimg2_filter_process
    \/ zimg2_filter_free
    \/ ColorspaceCreate
    \/ DepthCreate
    \/ zimg2_resize_params_default
    \/ ResizeCreate

Spec == Init /\ [][Next]_vars

CopySpec == CopyInit /\ [][CopyProcess]_vars

(***************************************************************************)
(* Properties.                                                             *)
(***************************************************************************)
CreateOps == { "colorspace_create", "depth_create", "resize_create" }

\* The status code the taxonomy assigns to each failure class.
CodeOfClass(c) ==
    CASE c = "ZimgUnknownError"     -> ZIMG_ERROR_UNKNOWN
      [] c = "ZimgLogicError"       -> ZIMG_ERROR_LOGIC
      [] c = "ZimgOutOfMemory"      -> ZIMG_ERROR_OUT_OF_MEMORY
      [] c = "ZimgIllegalArgument"  -> ZIMG_ERROR_ILLEGAL_ARGUMENT
      [] c = "ZimgUnsupportedError" -> ZIMG_ERROR_UNSUPPORTED
      [] OTHER                      -> ZIMG_ERROR_UNKNOWN

ColorspaceEnumsRecognised(p) ==
    /\ translate_matrix(p.matrix_in).exc = NoExc
    /\ translate_transfer(p.transfer_in).exc = NoExc
    /\ translate_primaries(p.primaries_in).exc = NoExc
    /\ translate_matrix(p.matrix_out).exc = NoExc
    /\ translate_transfer(p.transfer_out).exc = NoExc
    /\ translate_primaries(p.primaries_out).exc = NoExc

PixelTypeRecognised(t) == translate_pixel_type(t).exc = NoExc

\* C1: a status-returning operation returns 0 when the wrapped filter
\* operation completes; when it raises a library failure the operation
\* returns a nonzero status, the thread's last-error code equals that status
\* and the last-error message is the failure's message.
C1_StatusMatchesLastError ==
    last.op \in StatusOps =>
        /\ last.raised = NoExc => last.status = 0
        /\ last.raised # NoExc =>
               /\ last.status # 0
               /\ g_last_error = last.status
               /\ g_last_error_msg = last.raised.what

\* C1 witness: process has just returned after its filter raised a failure.
C1_Witness ==
    /\ last.op = "process"
    /\ last.raised = Exc("ZimgIllegalArgument", "filter failure")
    /\ last.status # 0

\* C2 (as claimed): with an unrecognised enum value or pixel type,
\* zimg2_colorspace_create returns a null handle, records the
\* illegal-argument class as the last error and never reaches the
\* construction of the filter.
C2_UnrecognisedEnumIsIllegalArgument ==
    ( /\ last.op = "colorspace_create"
      /\ ~(ColorspaceEnumsRecognised(last.params)
             /\ PixelTypeRecognised(last.params.pixel_type)) )
        => /\ last.handle = NULL
           /\ last.ctor = NoCtor
           /\ g_last_error = ZIMG_ERROR_ILLEGAL_ARGUMENT

\* The case C3 is about: every enum recognised, a recognised pixel type
\* that is not float.
C3_Case ==
    /\ last.op = "colorspace_create"
    /\ ColorspaceEnumsRecognised(last.params)
    /\ last.params.pixel_type \in { ZIMG_PIXEL_BYTE, ZIMG_PIXEL_WORD, ZIMG_PIXEL_HALF }

\* C3 (as claimed): a non-float pixel type makes zimg2_colorspace_create
\* fail with the illegal-argument class, whether that is read as the class
\* raised or as the code recorded, and return a null handle.
C3_NonFloatIsIllegalArgument ==
    C3_Case =>
        /\ last.handle = NULL
        /\ \/ last.raised.type = "ZimgIllegalArgument"
           \/ g_last_error = ZIMG_ERROR_ILLEGAL_ARGUMENT

\* C3 (amended): a non-float pixel type makes zimg2_colorspace_create raise
\* the unsupported-operation failure "colorspace only supports FLOAT"; it
\* returns a null handle without reaching the construction of the filter and
\* that message becomes the last-error message.
C3_NonFloatIsUnsupported ==
    C3_Case =>
        /\ last.handle = NULL
        /\ last.ctor = NoCtor
        /\ last.raised = Exc("ZimgUnsupportedError", "colorspace only supports FLOAT")
        /\ g_last_error_msg = "colorspace only supports FLOAT"

\* C3 witness: a creation with a half-float pixel type has just returned.
C3_Witness ==
    /\ C3_Case
    /\ last.params.pixel_type = ZIMG_PIXEL_HALF
    /\ last.handle = NULL

\* C4 (as claimed): the code recorded for a failure is the code of the
\* failure's own class.
C4_ClassifiedByActualClass ==
    last.raised # NoExc => g_last_error = CodeOfClass(last.raised.type)

\* C5 (as claimed): a constructor that returns a null handle has recorded a
\* last error for the failure in that same call.
C5_NullHandleRecordsError ==
    ( /\ last.op \in CreateOps
      /\ last.returned
      /\ last.handle = NULL )
        => /\ last.raised # NoExc
           /\ g_last_error = lastFail.code
           /\ g_last_error_msg = last.raised.what

\* C6 (as claimed): zimg2_resize_create hands the constructor the kernel
\* that translate_resize_filter selects for params->filter_type, and fails
\* with illegal-argument and a null handle for an unrecognised filter_type.
C6_KernelSelectedByFilterType ==
    ( /\ last.op = "resize_create"
      /\ PixelTypeRecognised(last.params.pixel_type) )
        => LET k == translate_resize_filter(last.params.filter_type,
                                            last.params.filter_param_a,
                                            last.params.filter_param_b, TRUE)
           IN  IF k.exc # NoExc
               THEN /\ last.returned
                    /\ last.handle = NULL
                    /\ last.raised.type = "ZimgIllegalArgument"
               ELSE /\ last.ctor # NoCtor
                    /\ last.ctor.filter = k.val

\* C7 (as claimed): after zimg2_resize_params_default both subwidth and
\* subheight hold NaN, whatever the struct held before.
C7_DefaultSetsBothSentinels ==
    last.op = "resize_params_default" => isnan(rp.subwidth) /\ isnan(rp.subheight)

\* C8: once process has been called for every row over the full column
\* span, every destination byte equals the source byte at the same row and
\* offset, for each pixel type.
C8_CopyIsIdentity ==
    \A r \in cp_done : \A k \in RowBytes(cp_type) : cp_dst[r][k] = SrcByte(cp_seed, r, k)

\* C8 witness: every row of a float image has been processed.
C8_Witness == cp_done = CopyRows /\ cp_type = "FLOAT"

\* C9 (as claimed): the output format's depth and range come from
\* depth_out and range_out exactly when the output pixel type is byte or
\* word, and stay at their zero defaults otherwise.
C9_OutputDepthByOutputType ==
    ( /\ last.op = "depth_create"
      /\ last.ctor # NoCtor )
        => IF IsInteger(last.ctor.pixel_out.type)
           THEN /\ last.ctor.pixel_out.depth = last.params.depth_out
                /\ last.ctor.pixel_out.fullrange =
                       translate_pixel_range(last.params.range_out).val
           ELSE /\ last.ctor.pixel_out.depth = 0
                /\ last.ctor.pixel_out.fullrange = FALSE

\* C10: the last-error pair always holds the status and message of the most
\* recent call in which a library failure was raised (its initial value if
\* there was none): a call that succeeds leaves it unchanged.
C10_LastErrorIsMostRecentFailure ==
    /\ g_last_error = lastFail.code
    /\ g_last_error_msg = lastFail.msg

\* C10 witness: a status-returning call has just succeeded while an earlier
\* failure is still recorded.
C10_Witness ==
    /\ last.op \in StatusOps
    /\ last.status = 0
    /\ last.raised = NoExc
    /\ g_last_error # 0

====
